---- MODULE Spec2Model ----
(***************************************************************************)
(* A model of code4lm (src/src/code4lm/main.py): the directory walk that   *)
(* renders the tree (create_directory_tree), the walk that collects the    *)
(* files to merge (find_files_to_process), the merge itself                *)
(* (generate_output_string) and the two MCP tools (list_project_structure, *)
(* get_files_content).                                                     *)
(*                                                                         *)
(* Text is modelled as a sequence of character codes (46 is ".", 47 is     *)
(* "/", 65 is "A", 97 is "a", 98 is "b", 119 is "w"), a path as the        *)
(* sequence of its components.  The filesystem is the project root /w/a    *)
(* with the entries below it, and a file /w/a.b next to the root.          *)
(***************************************************************************)
EXTENDS Integers, Sequences, FiniteSets, TLC

VARIABLES
    rootName,       \* basename of the project root; the root is /w/<rootName>
    kind,           \* path relative to the root -> "file" | "dir"
    noRead,         \* relative paths of the files whose open() fails
    listErr,        \* directory (relative path, <<>> the root) -> outcome of listing it
    outside,        \* absolute paths of the regular files outside the root
    extensions,     \* the extension tokens, in order
    exclude_dirs,   \* the excluded directory names
    exclude_files,  \* the excluded file names
    gitignore_spec, \* the parsed .gitignore patterns, <<>> for None
    tree,           \* outcome of the last create_directory_tree
    found,          \* outcome of the last find_files_to_process
    merged,         \* outcome of the last generate_output_string
    log,            \* what the last generate_output_string passed to logger
    listing,        \* outcome of the last list_project_structure
    request,        \* relative_file_paths of the last get_files_content
    reply,          \* outcome of the last get_files_content
    opened          \* absolute paths the last get_files_content passed to open()

vars == <<rootName, kind, noRead, listErr, outside, extensions, exclude_dirs,
          exclude_files, gitignore_spec, tree, found, merged, log, listing,
          request, reply, opened>>

fsVars == <<rootName, kind, noRead, listErr, outside>>
cfgVars == <<extensions, exclude_dirs, exclude_files, gitignore_spec>>

----------------------------------------------------------------------------
(* Bounds of the model *)

\* most entries below the project root in a scan (Spec)
MaxEntries == 3
\* deepest entry below the project root
MaxDepth == 3
\* most entries below the project root in a merge with failures (SpecIO) and
\* in a retrieval (SpecGet)
MaxProject == 2
\* most paths in one get_files_content request
MaxRequest == 2

----------------------------------------------------------------------------
(* The names, tokens and patterns the inputs are drawn from *)

\* "a", "a.b", "A.b"
Names == { <<97>>, <<97, 46, 98>>, <<65, 46, 98>> }

\* the directory that holds the project root: "w"
Parent == <<119>>

\* the ".." component of a requested path
DotDot == <<46, 46>>

\* extension lists: [".b"], ["a", ".b"]
ExtensionChoices == { << <<46, 98>> >>, << <<97>>, <<46, 98>> >> }

\* excluded directory names: none, {"a"}
ExcludeDirChoices == { {}, { <<97>> } }

\* excluded file names: none, {"A.b"}
ExcludeFileChoices == { {}, { <<65, 46, 98>> } }

\* .gitignore contents: no file; "a/"; "a" followed by "!a/"
GitignoreChoices ==
    { <<>>,
      << [name |-> <<97>>, dirOnly |-> TRUE, negated |-> FALSE] >>,
      << [name |-> <<97>>, dirOnly |-> FALSE, negated |-> FALSE],
         [name |-> <<97>>, dirOnly |-> TRUE, negated |-> TRUE] >> }

----------------------------------------------------------------------------
(* Text *)

Min(a, b) == IF a < b THEN a ELSE b

\* s < t for two str values: code point by code point, a proper prefix first
StrLess(s, t) ==
    \E i \in 1..(Min(Len(s), Len(t)) + 1) :
        /\ \A j \in 1..(i - 1) : s[j] = t[j]
        /\ \/ i > Len(s) /\ i <= Len(t)
           \/ i <= Len(s) /\ i <= Len(t) /\ s[i] < t[i]

\* s.startswith(pre)
StartsWith(s, pre) == Len(pre) <= Len(s) /\ SubSeq(s, 1, Len(pre)) = pre

\* s.endswith(suf)
EndsWith(s, suf) ==
    Len(suf) <= Len(s) /\ SubSeq(s, Len(s) - Len(suf) + 1, Len(s)) = suf

\* s.lower()
Lower(s) == [i \in 1..Len(s) |-> IF s[i] \in 65..90 THEN s[i] + 32 ELSE s[i]]

RECURSIVE PathStr(_)
\* str(path) of a non-empty relative path: the components joined by "/"
PathStr(parts) ==
    IF Len(parts) = 0 THEN <<>>
    ELSE IF Len(parts) = 1 THEN parts[1]
    ELSE parts[1] \o <<47>> \o PathStr(Tail(parts))

RECURSIVE SplitPath(_, _)
\* the components of a path text: text.split("/"), cur the component being read
SplitPath(text, cur) ==
    IF Len(text) = 0 THEN IF Len(cur) = 0 THEN <<>> ELSE <<cur>>
    ELSE IF Head(text) = 47
         THEN (IF Len(cur) = 0 THEN <<>> ELSE <<cur>>) \o SplitPath(Tail(text), <<>>)
         ELSE SplitPath(Tail(text), Append(cur, Head(text)))

\* the last element of a non-empty sequence: Path.name of a path
Name(path) == path[Len(path)]

\* the largest element of a non-empty set of numbers
MaxOf(S) == CHOOSE m \in S : \A x \in S : x <= m

----------------------------------------------------------------------------
(* The gitignore matcher (pathspec, gitwildmatch), for patterns that are a *)
(* bare name, optionally with a leading "!" and a trailing "/"             *)

\* one pattern against a path text: the name matches a component of the path,
\* at any depth; a pattern with a trailing "/" matches that component only
\* when it is a directory, that is when something follows it in the text
PatternMatches(pat, text) ==
    LET parts == SplitPath(text, <<>>)
        isDirText == Len(text) > 0 /\ text[Len(text)] = 47
    IN \E i \in 1..Len(parts) :
          /\ parts[i] = pat.name
          /\ (pat.dirOnly => (i < Len(parts) \/ isDirText))

\* gitignore_spec.match_file(text): the last pattern that matches decides
match_file(spec, text) ==
    LET hits == { i \in 1..Len(spec) : PatternMatches(spec[i], text) }
    IN hits # {} /\ ~spec[MaxOf(hits)].negated

----------------------------------------------------------------------------
(* The filesystem *)

\* the directories below the root, and the root itself (<<>>)
Dirs == { <<>> } \cup { p \in DOMAIN kind : kind[p] = "dir" }

\* the regular files below the root
Files == { p \in DOMAIN kind : kind[p] = "file" }

\* Path.is_file()
is_file(p) == p \in DOMAIN kind /\ kind[p] = "file"

\* Path.is_dir()
is_dir(p) == p = <<>> \/ (p \in DOMAIN kind /\ kind[p] = "dir")

\* the orders in which the filesystem may return the entries of a directory:
\* "A.b", "a", "a.b" and the reverse
ListingOrders ==
    { << <<65, 46, 98>>, <<97>>, <<97, 46, 98>> >>,
      << <<97, 46, 98>>, <<97>>, <<65, 46, 98>> >> }

\* current_dir.iterdir() / os.scandir(current_dir): the entries of a
\* directory, in the order the filesystem returns them
iterdir(current_dir, order) ==
    LET all == [i \in 1..Len(order) |-> current_dir \o <<order[i]>>]
    IN SelectSeq(all, LAMBDA p : p \in DOMAIN kind)

----------------------------------------------------------------------------
(* create_directory_tree *)

\* the connectors and prefix columns of the tree text; the source writes
\* them with box-drawing characters, written here in ASCII
ConnectorLast == "L-- "
ConnectorMid == "|-- "
ColumnLast == "    "
ColumnMid == "|   "

\* the sort key of line 38, (p.is_file(), p.name.lower()), as an order
SortKeyLess(p, q) ==
    \/ ~is_file(p) /\ is_file(q)
    \/ is_file(p) = is_file(q) /\ StrLess(Lower(Name(p)), Lower(Name(q)))

\* dir_contents: sorted(list(current_dir.iterdir()), key=...), directories
\* first, then by lower-cased name.  Python's sort is stable: the entries
\* whose keys are equal stay in the order iterdir returned them.
dir_contents(current_dir, order) ==
    LET seq == iterdir(current_dir, order)
        n == Len(seq)
        Rank(i) == 1 + Cardinality({ j \in 1..n :
                         \/ SortKeyLess(seq[j], seq[i])
                         \/ (~SortKeyLess(seq[i], seq[j]) /\ j < i) })
    IN [k \in 1..n |-> seq[CHOOSE i \in 1..n : Rank(i) = k]]

\* relative_path_str: the path relative to the root, "/" appended for a
\* directory
relative_path_str(item_path) ==
    PathStr(item_path) \o (IF is_dir(item_path) THEN <<47>> ELSE <<>>)

\* the filter of lines 44-61: whether item_path is appended to items_to_render
Rendered(item_path) ==
    /\ ~(gitignore_spec # <<>> /\ match_file(gitignore_spec, relative_path_str(item_path)))
    /\ Name(item_path) \notin exclude_dirs
    /\ is_file(item_path) =>
          /\ Name(item_path) \notin exclude_files
          /\ \E i \in 1..Len(extensions) : EndsWith(Name(item_path), extensions[i])

\* items_to_render of one directory
items_to_render(current_dir, order) == SelectSeq(dir_contents(current_dir, order), Rendered)

\* the connector of the i-th of n rendered items
Connector(i, n) == IF i = n THEN ConnectorLast ELSE ConnectorMid

\* new_prefix with the column of a middle sibling whatever the position
NewPrefixAlwaysMid(prefix, i, n) == Append(prefix, ColumnMid)

\* new_prefix: the prefix of the lines below the i-th of n rendered items
NewPrefix(prefix, i, n) == Append(prefix, IF i = n THEN ColumnLast ELSE ColumnMid)

RECURSIVE recursive_walk(_, _, _)
RECURSIVE RenderItems(_, _, _, _)

\* recursive_walk(current_dir, prefix): the lines it appends to tree_lines,
\* or raised when listing a directory raises an error that line 39 does not
\* catch.  A line is the prefix (one column per ancestor), the connector and
\* the name; path records the item_path the line was appended for.
recursive_walk(current_dir, prefix, order) ==
    IF listErr[current_dir] \in {"FileNotFoundError", "PermissionError"}
    THEN [raised |-> FALSE, lines |-> <<>>]
    ELSE IF listErr[current_dir] # "ok"
    THEN [raised |-> TRUE, lines |-> <<>>]
    ELSE RenderItems(items_to_render(current_dir, order), 1, prefix, order)

\* the loop of lines 64-70, from its i-th iteration on
RenderItems(items, i, prefix, order) ==
    IF i > Len(items) THEN [raised |-> FALSE, lines |-> <<>>]
    ELSE LET line == [prefix |-> prefix,
                      connector |-> Connector(i, Len(items)),
                      name |-> Name(items[i]),
                      path |-> items[i]]
             below == IF is_dir(items[i])
                      THEN recursive_walk(items[i], NewPrefix(prefix, i, Len(items)), order)
                      ELSE [raised |-> FALSE, lines |-> <<>>]
         IN IF below.raised THEN [raised |-> TRUE, lines |-> <<>>]
            ELSE LET rest == RenderItems(items, i + 1, prefix, order)
                 IN IF rest.raised THEN [raised |-> TRUE, lines |-> <<>>]
                    ELSE [raised |-> FALSE,
                          lines |-> <<line>> \o below.lines \o rest.lines]

\* create_directory_tree: the root line followed by the lines of the walk; the
\* call raises when the walk does
create_directory_tree(order) ==
    LET walk == recursive_walk(<<>>, <<>>, order)
    IN IF walk.raised THEN [status |-> "raised", lines |-> <<>>]
       ELSE [status |-> "ok",
             lines |-> << [prefix |-> <<>>, connector |-> "",
                           name |-> Append(rootName, 47), path |-> <<>>] >>
                       \o walk.lines]

----------------------------------------------------------------------------
(* find_files_to_process *)

\* the loop of lines 91-96 keeping every directory
DescendedAlways(dir_path) == TRUE

\* whether the loop of lines 91-96 keeps directory d in dirs
Descended(dir_path) ==
    ~( \/ Name(dir_path) \in exclude_dirs
       \/ (gitignore_spec # <<>>
           /\ match_file(gitignore_spec, PathStr(dir_path) \o <<47>>)) )

\* whether the loop of lines 99-106 appends the file to files_to_process
Included(file_path) ==
    /\ ~( \/ Name(file_path) \in exclude_files
          \/ (gitignore_spec # <<>> /\ match_file(gitignore_spec, PathStr(file_path))) )
    /\ \E i \in 1..Len(extensions) :
          \/ Name(file_path) = extensions[i]
          \/ EndsWith(Name(file_path), extensions[i])

RECURSIVE os_walk(_, _)
RECURSIVE WalkDirs(_, _, _)

\* the files appended to files_to_process while os.walk(topdown=True) visits
\* top and what is below it, in the order they are appended; a directory that
\* cannot be listed yields nothing (os.walk without onerror)
os_walk(top, order) ==
    IF listErr[top] # "ok" THEN <<>>
    ELSE LET entries == iterdir(top, order)
             dirs == SelectSeq(entries, LAMBDA p : is_dir(p) /\ Descended(p))
             files == SelectSeq(entries, LAMBDA p : ~is_dir(p) /\ Included(p))
         IN files \o WalkDirs(dirs, 1, order)

\* os.walk descending into the directories left in dirs, from the i-th on
WalkDirs(dirs, i, order) ==
    IF i > Len(dirs) THEN <<>>
    ELSE os_walk(dirs[i], order) \o WalkDirs(dirs, i + 1, order)

\* Path.__lt__: the component sequences compared as lists of str
PathLess(p, q) ==
    \E i \in 1..(Min(Len(p), Len(q)) + 1) :
        /\ \A j \in 1..(i - 1) : p[j] = q[j]
        /\ \/ i > Len(p) /\ i <= Len(q)
           \/ i <= Len(p) /\ i <= Len(q) /\ StrLess(p[i], q[i])

\* line 108 returning files_to_process as the walk left it
SortedPathsSkipped(files_to_process) == files_to_process

\* line 108: sorted(files_to_process)
SortedPaths(files_to_process) ==
    LET n == Len(files_to_process)
        Rank(i) == 1 + Cardinality({ j \in 1..n :
                         \/ PathLess(files_to_process[j], files_to_process[i])
                         \/ (~PathLess(files_to_process[i], files_to_process[j]) /\ j < i) })
    IN [k \in 1..n |-> files_to_process[CHOOSE i \in 1..n : Rank(i) = k]]

\* find_files_to_process: the sorted list of relative paths
find_files_to_process(order) == SortedPaths(os_walk(<<>>, order))

----------------------------------------------------------------------------
(* generate_output_string *)

\* the absolute path of the project root, /w/<rootName>
project_root == <<Parent, rootName>>

\* what infile.read() returns for the file at an absolute path: every file
\* holds a text of its own
FileContent(abs_path) == [of |-> abs_path]

\* the loop of lines 133-144 writing a segment for every file, readable or not
MergeFilesNoSkip(files, i) ==
    LET n == IF i > Len(files) THEN 0 ELSE Len(files) - i + 1
        fileAt(k) == files[i + ((k + 1) \div 2) - 1]
    IN [parts |-> [k \in 1..(2 * n) |->
                     IF k % 2 = 1 THEN [kind |-> "File Path", path |-> fileAt(k)]
                     ELSE [kind |-> "content", data |-> FileContent(project_root \o fileAt(k))]],
        log |-> [k \in 1..n |-> [msg |-> "Merged", path |-> files[i + k - 1]]]]

RECURSIVE MergeFiles(_, _)
\* the loop of lines 133-144 from its i-th file on: what it appends to
\* output_parts and what it passes to logger.  A file that cannot be opened
\* is logged and leaves nothing in output_parts.
MergeFiles(files, i) ==
    IF i > Len(files) THEN [parts |-> <<>>, log |-> <<>>]
    ELSE LET rest == MergeFiles(files, i + 1)
         IN IF files[i] \in noRead
            THEN [parts |-> rest.parts,
                  log |-> << [msg |-> "Could not read file (skipped)", path |-> files[i]] >>
                          \o rest.log]
            ELSE [parts |-> << [kind |-> "File Path", path |-> files[i]],
                               [kind |-> "content", data |-> FileContent(project_root \o files[i])] >>
                            \o rest.parts,
                  log |-> << [msg |-> "Merged", path |-> files[i]] >> \o rest.log]

\* generate_output_string: the parts of the returned text and the logger
\* calls; the call raises when create_directory_tree does
generate_output_string(treeOrder, walkOrder) ==
    LET tree_string == create_directory_tree(treeOrder)
        files_to_merge_relative == find_files_to_process(walkOrder)
        body == MergeFiles(files_to_merge_relative, 1)
    IN IF tree_string.status = "raised"
       THEN [status |-> "raised", parts |-> <<>>,
             log |-> << [msg |-> "Generating directory tree", path |-> <<>>] >>]
       ELSE [status |-> "ok",
             parts |-> << [kind |-> "Project Directory Tree", lines |-> tree_string.lines],
                          [kind |-> "section break"] >> \o body.parts,
             log |-> << [msg |-> "Generating directory tree", path |-> <<>>],
                        [msg |-> "Directory tree generated", path |-> <<>>],
                        [msg |-> "Finding files to merge", path |-> <<>>],
                        [msg |-> "Found files to merge", path |-> <<>>,
                         count |-> Len(files_to_merge_relative)] >> \o body.log]

----------------------------------------------------------------------------
(* list_project_structure *)

\* list_project_structure: the tree and the matched files, each file as the
\* text str(p); the call raises when create_directory_tree does
list_project_structure(treeOrder, walkOrder) ==
    LET tree_string == create_directory_tree(treeOrder)
        files_found == find_files_to_process(walkOrder)
    IN IF tree_string.status = "raised"
       THEN [status |-> "raised", tree |-> <<>>, files |-> <<>>]
       ELSE [status |-> "ok", tree |-> tree_string.lines,
             files |-> [i \in 1..Len(files_found) |-> PathStr(files_found[i])]]

----------------------------------------------------------------------------
(* get_files_content *)

\* project_root / requested_path: the components of the root followed by
\* those of the text; a text that starts with "/" replaces the root
JoinPath(root, text) ==
    IF Len(text) > 0 /\ text[1] = 47 THEN SplitPath(text, <<>>)
    ELSE root \o SplitPath(text, <<>>)

RECURSIVE resolve(_, _)
\* Path.resolve() of an absolute path in a filesystem without symbolic links:
\* every ".." removes the component before it; done is what is resolved so far
resolve(parts, done) ==
    IF Len(parts) = 0 THEN done
    ELSE IF Head(parts) = DotDot
         THEN resolve(Tail(parts), IF Len(done) = 0 THEN done ELSE SubSeq(done, 1, Len(done) - 1))
         ELSE resolve(Tail(parts), Append(done, Head(parts)))

\* str(path) of an absolute path
AbsStr(parts) == <<47>> \o PathStr(parts)

\* file_path of line 305
file_path_of(requested_path) == resolve(JoinPath(project_root, requested_path), <<>>)

\* the security check of line 308 with the condition inverted
RefusedInverted(file_path) == StartsWith(AbsStr(file_path), AbsStr(resolve(project_root, <<>>)))

\* the security check of line 308: the request is refused
Refused(file_path) == ~StartsWith(AbsStr(file_path), AbsStr(resolve(project_root, <<>>)))

\* file_path.is_file() for an absolute path
IsRegularFile(abs_path) ==
    \/ abs_path \in outside
    \/ /\ Len(abs_path) > Len(project_root)
       /\ SubSeq(abs_path, 1, Len(project_root)) = project_root
       /\ is_file(SubSeq(abs_path, Len(project_root) + 1, Len(abs_path)))

\* open(file_path) fails
OpenFails(abs_path) ==
    /\ Len(abs_path) > Len(project_root)
    /\ SubSeq(abs_path, 1, Len(project_root)) = project_root
    /\ SubSeq(abs_path, Len(project_root) + 1, Len(abs_path)) \in noRead

\* one iteration of the loop of lines 304-330: what it appends to
\* output_parts
PartsFor(requested_path) ==
    LET file_path == file_path_of(requested_path)
    IN IF Refused(file_path)
       THEN << [kind |-> "Access Denied", path |-> requested_path] >>
       ELSE IF ~IsRegularFile(file_path)
       THEN << [kind |-> "File Not Found", path |-> requested_path] >>
       ELSE IF OpenFails(file_path)
       THEN << [kind |-> "Error Reading File", path |-> requested_path] >>
       ELSE << [kind |-> "File Path", path |-> requested_path],
               [kind |-> "content", data |-> FileContent(file_path)] >>

\* the absolute paths the loop passes to open()
OpenedFor(relative_file_paths) ==
    { file_path_of(relative_file_paths[i]) : i \in
        { j \in 1..Len(relative_file_paths) :
            /\ ~Refused(file_path_of(relative_file_paths[j]))
            /\ IsRegularFile(file_path_of(relative_file_paths[j])) } }

RECURSIVE OutputParts(_, _)
\* output_parts after the loop, from the i-th requested path on
OutputParts(relative_file_paths, i) ==
    IF i > Len(relative_file_paths) THEN <<>>
    ELSE PartsFor(relative_file_paths[i]) \o OutputParts(relative_file_paths, i + 1)

\* get_files_content: the parts of the returned text, or the fixed message
\* when output_parts is empty
get_files_content(relative_file_paths) ==
    LET output_parts == OutputParts(relative_file_paths, 1)
    IN IF output_parts = <<>>
       THEN [status |-> "ok", parts |-> << [kind |-> "No files were read"] >>]
       ELSE [status |-> "ok", parts |-> output_parts]

----------------------------------------------------------------------------
(* The layouts the filesystem is drawn from *)

\* the entries a layout can gain: a new name in the root or in one of its
\* directories, no deeper than depth
NewEntries(layout, depth) ==
    LET paths == { e[1] : e \in layout }
        dirs == { <<>> } \cup { e[1] : e \in { x \in layout : x[2] = "dir" } }
    IN { c \in { <<d \o <<n>>, k>> : d \in dirs, n \in Names, k \in {"file", "dir"} } :
            Len(c[1]) <= depth /\ c[1] \notin paths }

RECURSIVE Layouts(_, _)
\* the layouts of at most n entries, none deeper than depth
Layouts(n, depth) ==
    IF n = 0 THEN { {} }
    ELSE LET smaller == Layouts(n - 1, depth)
         IN smaller \cup UNION { { l \cup {c} : c \in NewEntries(l, depth) } : l \in smaller }

\* a layout as the function kind
KindOf(layout) ==
    [p \in { e[1] : e \in layout } |-> (CHOOSE e \in layout : e[1] = p)[2]]

NoTree == [status |-> "none", lines |-> <<>>]
NoFound == [status |-> "none", files |-> <<>>]
NoMerged == [status |-> "none", parts |-> <<>>]
NoListing == [status |-> "none", tree |-> <<>>, files |-> <<>>]
NoReply == [status |-> "none", parts |-> <<>>]

\* nothing has been computed yet
InitResults ==
    /\ tree = NoTree
    /\ found = NoFound
    /\ merged = NoMerged
    /\ log = <<>>
    /\ listing = NoListing
    /\ request = <<>>
    /\ reply = NoReply
    /\ opened = {}

\* a configuration, as main_cli and process_mcp_args build it
InitConfig ==
    /\ extensions \in ExtensionChoices
    /\ exclude_dirs \in ExcludeDirChoices
    /\ exclude_files \in ExcludeFileChoices
    /\ gitignore_spec \in GitignoreChoices

\* a healthy filesystem: every directory can be listed, every file read
Init ==
    /\ rootName = <<97>>
    /\ \E layout \in Layouts(MaxEntries, MaxDepth) : kind = KindOf(layout)
    /\ noRead = {}
    /\ listErr = [d \in Dirs |-> "ok"]
    /\ outside = {}
    /\ InitConfig
    /\ InitResults

\* the outcomes of listing a directory
ListOutcomes == { "ok", "FileNotFoundError", "PermissionError", "NotADirectoryError" }

\* a filesystem with failures: at most one directory, the root included,
\* cannot be listed (it is missing, forbidden, or not a directory), and at
\* most one file cannot be opened
InitIO ==
    /\ rootName = <<97>>
    /\ \E layout \in Layouts(MaxProject, MaxDepth) : kind = KindOf(layout)
    /\ \E bad \in SUBSET Files : Cardinality(bad) <= 1 /\ noRead = bad
    /\ \E d \in Dirs, e \in ListOutcomes : listErr = [x \in Dirs |-> IF x = d THEN e ELSE "ok"]
    /\ outside = {}
    /\ extensions = << <<46, 98>> >>
    /\ exclude_dirs = {}
    /\ exclude_files = {}
    /\ gitignore_spec = <<>>
    /\ InitResults

\* the file next to the project root /w/a: /w/a.b
SiblingFile == <<Parent, <<97, 46, 98>> >>

\* requested paths that point out of the root: "../a.b", "../A.b"
EscapeTexts == { <<46, 46, 47, 97, 46, 98>>, <<46, 46, 47, 65, 46, 98>> }

\* the paths a client may request: those of the entries of the project and
\* the ones that point out of it
RequestTexts == { PathStr(p) : p \in DOMAIN kind } \cup EscapeTexts

\* the request lists of at most MaxRequest paths, no path twice
RequestLists ==
    { r \in UNION { [1..n -> RequestTexts] : n \in 0..MaxRequest } :
        \A i, j \in 1..Len(r) : i # j => r[i] # r[j] }

\* a served project: every directory can be listed, at most one file cannot
\* be opened, and a file lies next to the root
InitGet ==
    /\ rootName = <<97>>
    /\ \E layout \in Layouts(MaxProject, MaxDepth) : kind = KindOf(layout)
    /\ \E bad \in SUBSET Files : Cardinality(bad) <= 1 /\ noRead = bad
    /\ listErr = [d \in Dirs |-> "ok"]
    /\ outside = { SiblingFile }
    /\ extensions = << <<46, 98>> >>
    /\ exclude_dirs = {}
    /\ exclude_files = {}
    /\ gitignore_spec = <<>>
    /\ InitResults

----------------------------------------------------------------------------
(* The operations.  No operation keeps anything from one call to the next, *)
(* so a behaviour calls each of them at most once.                         *)

\* a call of create_directory_tree, the filesystem returning the entries of
\* the directories in some order
CreateDirectoryTree ==
    /\ tree.status = "none"
    /\ \E order \in ListingOrders : tree' = create_directory_tree(order)
    /\ UNCHANGED <<fsVars, cfgVars, found, merged, log, listing, request, reply, opened>>

\* a call of find_files_to_process
FindFilesToProcess ==
    /\ found.status = "none"
    /\ \E order \in ListingOrders :
          found' = [status |-> "ok", files |-> find_files_to_process(order)]
    /\ UNCHANGED <<fsVars, cfgVars, tree, merged, log, listing, request, reply, opened>>

\* a call of generate_output_string
GenerateOutputString ==
    /\ merged.status = "none"
    /\ \E treeOrder, walkOrder \in ListingOrders :
          LET out == generate_output_string(treeOrder, walkOrder)
          IN /\ merged' = [status |-> out.status, parts |-> out.parts]
             /\ log' = out.log
    /\ UNCHANGED <<fsVars, cfgVars, tree, found, listing, request, reply, opened>>

\* a call of the tool list_project_structure
ListProjectStructure ==
    /\ listing.status = "none"
    /\ \E treeOrder, walkOrder \in ListingOrders :
          listing' = list_project_structure(treeOrder, walkOrder)
    /\ UNCHANGED <<fsVars, cfgVars, tree, found, merged, log, request, reply, opened>>

\* a call of the tool get_files_content
GetFilesContent ==
    /\ reply.status = "none"
    /\ \E relative_file_paths \in RequestLists :
          /\ request' = relative_file_paths
          /\ reply' = get_files_content(relative_file_paths)
          /\ opened' = OpenedFor(relative_file_paths)
    /\ UNCHANGED <<fsVars, cfgVars, tree, found, merged, log, listing>>

Next == CreateDirectoryTree \/ FindFilesToProcess

Spec == Init /\ [][Next]_vars

\* the scan and the merge on a filesystem with failures
NextIO == CreateDirectoryTree \/ FindFilesToProcess \/ GenerateOutputString

SpecIO == InitIO /\ [][NextIO]_vars

\* discovery followed by retrieval
NextGet == ListProjectStructure \/ GetFilesContent

SpecGet == InitGet /\ [][NextGet]_vars

----------------------------------------------------------------------------
(* Properties *)

\* p lies somewhere beneath directory d
Beneath(p, d) == Len(p) > Len(d) /\ SubSeq(p, 1, Len(d)) = d

\* the directory that holds p
ParentOf(p) == SubSeq(p, 1, Len(p) - 1)

\* the entries that have a line in the tree, the root line apart
TreePaths == { tree.lines[i].path : i \in 2..Len(tree.lines) }

\* the files of the list of find_files_to_process
FoundPaths == { found.files[i] : i \in 1..Len(found.files) }

\* directory d is excluded: its basename is an excluded directory name, or
\* the gitignore rules match its relative path followed by "/"
DirExcluded(d) ==
    IF d = <<>> THEN rootName \in exclude_dirs
    ELSE \/ Name(d) \in exclude_dirs
         \/ (gitignore_spec # <<>> /\ match_file(gitignore_spec, PathStr(d) \o <<47>>))

\* the file would be listed if only its own name and path were looked at
MatchesByItself(f) ==
    /\ Name(f) \notin exclude_files
    /\ \E i \in 1..Len(extensions) : EndsWith(Name(f), extensions[i])

\* C1 (as stated): nothing beneath an excluded directory, the root included,
\* is in the file list or in the tree.
C1_Original ==
    \A d \in Dirs : DirExcluded(d) => \A p \in TreePaths \cup FoundPaths : ~Beneath(p, d)

\* C1 (amended): nothing beneath an excluded directory other than the scan
\* root itself is in the file list returned by find_files_to_process or has a
\* line in the tree of create_directory_tree, even when the descendant matches
\* the extension list; the root is scanned whatever its name.
C1_DescendantPruning ==
    \A d \in Dirs \ { <<>> } :
        DirExcluded(d) => \A p \in TreePaths \cup FoundPaths : ~Beneath(p, d)

\* both walks have run on a layout where an excluded directory holds a file
\* that matches the extension list, and another file is listed
C1_Witness ==
    /\ tree.status = "ok"
    /\ found.status = "ok"
    /\ FoundPaths # {}
    /\ \E d \in Dirs \ { <<>> } :
          DirExcluded(d) /\ \E f \in Files : Beneath(f, d) /\ MatchesByItself(f)

\* C3 (as stated): the files with a line in the tree are exactly the files of
\* the list of find_files_to_process.
C3_Original ==
    (tree.status = "ok" /\ found.status = "ok")
        => { p \in TreePaths : is_file(p) } = FoundPaths

\* C4 (as stated): the list is strictly sorted by the text of the relative
\* paths.
C4_Original ==
    found.status = "ok" =>
        \A i, j \in 1..Len(found.files) :
            i < j => StrLess(PathStr(found.files[i]), PathStr(found.files[j]))

\* C4 (amended): the list of find_files_to_process is strictly sorted in the
\* order of Path objects, that is component by component (each component
\* compared as text), not by the text of the whole path; it has no
\* duplicates and is the same for every order in which the walk visited the
\* files.
C4_SortedByComponents ==
    found.status = "ok" =>
        /\ \A i, j \in 1..Len(found.files) :
              i < j => PathLess(found.files[i], found.files[j])
        /\ \A order \in ListingOrders : find_files_to_process(order) = found.files

\* the list holds two files that the walk visited in another order and whose
\* order differs from the order of their texts
C4_Witness ==
    /\ found.status = "ok"
    /\ \E order \in ListingOrders : os_walk(<<>>, order) # found.files
    /\ \E i, j \in 1..Len(found.files) :
          i < j /\ StrLess(PathStr(found.files[j]), PathStr(found.files[i]))

\* C9 (as stated): in every directory the tree lists directories before
\* files and each group by lower-cased name, and the tree is the same for
\* every order in which the filesystem returns the entries.
C9_Original ==
    tree.status = "ok" =>
        /\ \A i, j \in 2..Len(tree.lines) :
              (i < j /\ ParentOf(tree.lines[i].path) = ParentOf(tree.lines[j].path))
                  => ~SortKeyLess(tree.lines[j].path, tree.lines[i].path)
        /\ \A order \in ListingOrders : create_directory_tree(order) = tree

\* the entry has a line: it and the directories above it pass the filter
Shown(p) == \A k \in 1..Len(p) : Rendered(SubSeq(p, 1, k))

\* the line of an entry that has one
LineOf(p) == CHOOSE i \in 2..Len(tree.lines) : tree.lines[i].path = p

\* C10: every rendered entry has exactly one line and no other entry has
\* one; the last rendered sibling of a directory has the connector of a last
\* item and the others that of a middle item; the prefix has one column per
\* ancestor below the root, blank when that ancestor was the last rendered
\* sibling and a bar otherwise; the lines of what is beneath a directory
\* follow its line immediately.
C10_ConnectorsAndPrefixes ==
    tree.status = "ok" =>
        LET L == tree.lines
            n == Len(tree.lines)
        IN /\ \A p \in DOMAIN kind :
                 Cardinality({ i \in 2..n : L[i].path = p }) = IF Shown(p) THEN 1 ELSE 0
           /\ \A i \in 2..n :
                 LET p == L[i].path
                     below == { j \in 2..n : Beneath(L[j].path, p) }
                 IN /\ L[i].name = Name(p)
                    /\ L[i].connector =
                          IF \E j \in (i + 1)..n : ParentOf(L[j].path) = ParentOf(p)
                          THEN ConnectorMid ELSE ConnectorLast
                    /\ Len(L[i].prefix) = Len(p) - 1
                    /\ \A k \in 1..(Len(p) - 1) :
                          L[i].prefix[k] =
                              IF L[LineOf(SubSeq(p, 1, k))].connector = ConnectorLast
                              THEN ColumnLast ELSE ColumnMid
                    /\ below = (i + 1)..(i + Cardinality(below))

\* a tree with a line below a directory that is the last rendered entry of
\* the root only because the entry sorted after it is suppressed
C10_Witness ==
    /\ tree.status = "ok"
    /\ \E i \in 2..Len(tree.lines) :
          /\ Len(tree.lines[i].path) = 2
          /\ tree.lines[i].prefix = <<ColumnLast>>
          /\ \E p \in DOMAIN kind :
                /\ Len(p) = 1
                /\ ~Shown(p)
                /\ SortKeyLess(ParentOf(tree.lines[i].path), p)

\* the list find_files_to_process returns, the same for every listing order
ListedFiles == find_files_to_process(CHOOSE order \in ListingOrders : TRUE)

\* C5 (as stated): a listed file that cannot be opened leaves a marker in the
\* output text.
C5_Original ==
    merged.status = "ok" =>
        \A f \in noRead :
            (\E i \in 1..Len(ListedFiles) : ListedFiles[i] = f)
                => \E k \in 1..Len(merged.parts) :
                      "path" \in DOMAIN merged.parts[k] /\ merged.parts[k].path = f

\* the parts of the merged text that open the segment of a file
FileSegments == SelectSeq(merged.parts, LAMBDA part : part.kind = "File Path")

\* C5 (amended): a listed file that cannot be opened or read leaves nothing
\* in the text generate_output_string returns; the failure is only passed to
\* the logger.  The text holds, in list order, the segment of every listed
\* file that can be read, each followed by that file's content, and an
\* unreadable file never makes the call raise (it raises only when
\* create_directory_tree does).
C5_UnreadableFileSkipped ==
    /\ merged.status = "raised" => \E d \in Dirs : listErr[d] = "NotADirectoryError"
    /\ merged.status = "ok" =>
          /\ [i \in 1..Len(FileSegments) |-> FileSegments[i].path]
                = SelectSeq(ListedFiles, LAMBDA f : f \notin noRead)
          /\ \A k \in 1..Len(merged.parts) :
                merged.parts[k].kind = "File Path" =>
                    /\ k < Len(merged.parts)
                    /\ merged.parts[k + 1].kind = "content"
                    /\ merged.parts[k + 1].data = FileContent(project_root \o merged.parts[k].path)
          /\ \A i \in 1..Len(ListedFiles) :
                ListedFiles[i] \in noRead =>
                    \E k \in 1..Len(log) :
                        /\ log[k].msg = "Could not read file (skipped)"
                        /\ log[k].path = ListedFiles[i]

\* the merge has run on a list where an unreadable file precedes a readable
\* one
C5_Witness ==
    /\ merged.status = "ok"
    /\ \E i, j \in 1..Len(ListedFiles) :
          i < j /\ ListedFiles[i] \in noRead /\ ListedFiles[j] \notin noRead

\* C8 (as stated): a directory that cannot be listed is treated as empty:
\* create_directory_tree never raises, and an unreadable root gives an empty
\* tree and an empty list.
C8_Original ==
    /\ tree.status # "raised"
    /\ (tree.status = "ok" /\ listErr[<<>>] # "ok") => Len(tree.lines) = 1
    /\ (found.status = "ok" /\ listErr[<<>>] # "ok") => found.files = <<>>

\* the absolute path lies outside the project root
OutsideRoot(abs_path) ==
    ~(Len(abs_path) >= Len(project_root)
      /\ SubSeq(abs_path, 1, Len(project_root)) = project_root)

RECURSIVE Segments(_)
\* the segments of the reply of get_files_content: a file's marker line and
\* its content are one segment
Segments(parts) ==
    IF Len(parts) = 0 THEN <<>>
    ELSE IF parts[1].kind = "No files were read" THEN Segments(Tail(parts))
    ELSE IF parts[1].kind = "File Path"
    THEN << [kind |-> "content", path |-> parts[1].path, data |-> parts[2].data] >>
         \o Segments(Tail(Tail(parts)))
    ELSE << [kind |-> parts[1].kind, path |-> parts[1].path, data |-> FileContent(<<>>)] >>
         \o Segments(Tail(parts))

\* C2 (as stated): a request that resolves outside the root is denied, and no
\* file outside the root is opened.
C2_Original ==
    reply.status = "ok" =>
        /\ \A abs_path \in opened : ~OutsideRoot(abs_path)
        /\ \A i \in 1..Len(request) :
              OutsideRoot(file_path_of(request[i]))
                  => \E k \in 1..Len(reply.parts) :
                        /\ reply.parts[k].kind = "Access Denied"
                        /\ reply.parts[k].path = request[i]

\* C6 (as stated): the reply holds one segment per requested path, in request
\* order, and the segment of a path that resolves outside the root is a
\* denial.
C6_Original ==
    reply.status = "ok" =>
        LET segs == Segments(reply.parts)
        IN /\ Len(segs) = Len(request)
           /\ \A i \in 1..Len(request) :
                 /\ segs[i].path = request[i]
                 /\ OutsideRoot(file_path_of(request[i])) => segs[i].kind = "Access Denied"

\* the requested path is one of the file list of list_project_structure
Listed(requested_path) ==
    \E i \in 1..Len(listing.files) : listing.files[i] = requested_path

\* C7 (as stated): every path of the file list, passed to get_files_content,
\* gives the content of that file.
C7_Original ==
    (listing.status = "ok" /\ reply.status = "ok") =>
        \A i \in 1..Len(request) :
            Listed(request[i]) =>
                LET seg == Segments(reply.parts)[i]
                IN /\ seg.kind = "content"
                   /\ seg.data = FileContent(project_root \o SplitPath(request[i], <<>>))

\* C7 (amended): on an unchanged filesystem without symbolic links, every
\* path of the file list that names a file the process can open, passed to
\* get_files_content with the same root, gives that file's content segment;
\* a listed file that cannot be opened gives a read-error marker; a listed
\* path never gives an access-denied or a not-found marker.
C7_RoundTrip ==
    (listing.status = "ok" /\ reply.status = "ok") =>
        \A i \in 1..Len(request) :
            Listed(request[i]) =>
                LET seg == Segments(reply.parts)[i]
                    rel == SplitPath(request[i], <<>>)
                IN IF rel \in noRead
                   THEN seg.kind = "Error Reading File"
                   ELSE /\ seg.kind = "content"
                        /\ seg.data = FileContent(project_root \o rel)

\* a listed file in a subdirectory was requested after an escaping path, and
\* its content came back
C7_Witness ==
    /\ listing.status = "ok"
    /\ reply.status = "ok"
    /\ Len(request) = 2
    /\ request[1] \in EscapeTexts
    /\ Listed(request[2])
    /\ Len(SplitPath(request[2], <<>>)) = 2
    /\ Segments(reply.parts)[2].kind = "content"

====
